---- MODULE Spec2Model ----
(***************************************************************************)
(* Model of src/src/filesystem_server/server.py: the path guard            *)
(* is_safe_path, the tools read_file, list_directory and search_files, and *)
(* the polling resource file_monitor_handler.                              *)
(*                                                                         *)
(* A string is a sequence of one-character strings.  A path is a record    *)
(* [abs, segs]: whether it starts with "/", and its segments (each a       *)
(* string); PathStr gives the string Python sees.  The process's working   *)
(* directory is WORKSPACE_ROOT (server.py:33 takes it from os.getcwd()).   *)
(*                                                                         *)
(* One call is modelled per behaviour: the handlers share no state.  The   *)
(* guard a handler calls is is_safe_path, or the constant function the     *)
(* tests put in its place (safe_patch); McpError(kind, message) is an      *)
(* Exception carrying that kind and message.  A handler that touches the   *)
(* file system once runs as one action; search_files steps once per        *)
(* directory of its walk and file_monitor_handler once per filesystem      *)
(* primitive, so that writes and deletions can fall between them.          *)
(***************************************************************************)
EXTENDS Integers, Sequences, FiniteSets, TLC

(* ------------------------------ bounds -------------------------------- *)
\* longest input path, in segments
MaxSegs == 2
\* largest modification timestamp the watched file reaches
MaxMtime == 3
\* largest max_results a search is called with
MaxResultsArg == 2

(* ------------------------------ strings ------------------------------- *)
SLASH == "/"

nW == <<"w">>
nWX == <<"w", "x">>
nA == <<"a">>
nF == <<"f">>
nGit == <<"g", "i", "t">>
nDotGit == <<".", "g", "i", "t">>
nDotEnv == <<".", "e", "n", "v">>
nCur == <<".">>
nUp == <<".", ".">>

\* the segment names input paths and directory entries are built from
Names == {nW, nWX, nA, nF, nGit, nDotGit, nDotEnv, nUp}

RECURSIVE JoinSegs(_)
\* "/".join(segs)
JoinSegs(segs) ==
    IF segs = <<>> THEN <<>>
    ELSE IF Len(segs) = 1 THEN segs[1]
    ELSE segs[1] \o <<SLASH>> \o JoinSegs(Tail(segs))

\* the string form of a path; the empty relative path is written "."
PathStr(p) ==
    IF p.abs THEN <<SLASH>> \o JoinSegs(p.segs)
    ELSE IF p.segs = <<>> THEN nCur
    ELSE JoinSegs(p.segs)

\* str.startswith
StartsWith(s, prefix) ==
    /\ Len(s) >= Len(prefix)
    /\ SubSeq(s, 1, Len(prefix)) = prefix

(* ------------------------------- paths -------------------------------- *)
\* os.getcwd() at import, already absolute and normal
WORKSPACE_ROOT == [abs |-> TRUE, segs |-> <<nW>>]

RECURSIVE NormSegs(_, _)
\* os.path.normpath on the segments of an absolute path: "." is dropped and
\* ".." removes the segment before it (and is dropped at the root)
NormSegs(segs, done) ==
    IF segs = <<>> THEN done
    ELSE IF Head(segs) = nCur THEN NormSegs(Tail(segs), done)
    ELSE IF Head(segs) = nUp
         THEN NormSegs(Tail(segs),
                       IF done = <<>> THEN done ELSE SubSeq(done, 1, Len(done) - 1))
    ELSE NormSegs(Tail(segs), Append(done, Head(segs)))

\* os.path.abspath: join a relative path to the working directory, normalize
abspath(p) ==
    [abs |-> TRUE,
     segs |-> NormSegs(IF p.abs THEN p.segs ELSE WORKSPACE_ROOT.segs \o p.segs, <<>>)]

RECURSIVE CommonLen(_, _)
\* number of leading segments two segment lists share
CommonLen(a, b) ==
    IF a = <<>> \/ b = <<>> \/ Head(a) # Head(b) THEN 0
    ELSE 1 + CommonLen(Tail(a), Tail(b))

\* os.path.relpath(path, start) of two absolute normal paths
relpath(p, start) ==
    LET c == CommonLen(p.segs, start.segs)
        ups == [i \in 1..(Len(start.segs) - c) |-> nUp]
    IN [abs |-> FALSE, segs |-> ups \o SubSeq(p.segs, c + 1, Len(p.segs))]

\* os.path.join(root, name)
PathJoin(p, name) == [abs |-> p.abs, segs |-> Append(p.segs, name)]

(* ------------------------------- regex -------------------------------- *)
\* The part of Python's re the program uses: a pattern is a string in which
\* "." matches any character and every other character matches itself.
\* re.compile raises re.error for a pattern that starts with the repetition
\* operator "*" (nothing to repeat) and for one that opens a character set
\* "[" it never closes.
ReValid(pattern) ==
    /\ ~(pattern # <<>> /\ pattern[1] = "*")
    /\ ~(\E i \in 1..Len(pattern) :
            pattern[i] = "[" /\ ~(\E j \in (i + 1)..Len(pattern) : pattern[j] = "]"))

\* the pattern matches s at offset k
ReMatchAt(pattern, s, k) ==
    /\ k + Len(pattern) - 1 <= Len(s)
    /\ \A i \in 1..Len(pattern) :
          \/ pattern[i] = "." /\ s[k + i - 1] # "\n"
          \/ pattern[i] = s[k + i - 1]

\* bool(re.search(pattern, s)) for a valid pattern
ReSearch(pattern, s) ==
    \E k \in 1..(Len(s) + 1) : ReMatchAt(pattern, s, k)

EXCLUDED_PATTERNS ==
    << <<".", "g", "i", "t">>,
       <<"_", "_", "p", "y", "c", "a", "c", "h", "e", "_", "_">>,
       <<"*", ".", "p", "y", "c">>,
       <<"*", ".", "p", "y", "o">>,
       <<"*", ".", "p", "y", "d">>,
       <<".", "D", "S", "_", "S", "t", "o", "r", "e">>,
       <<".", "e", "n", "v">> >>

RECURSIVE ExcludedFrom(_, _)
\* The loop over EXCLUDED_PATTERNS, from entry i on: each entry is passed to
\* re.search in list order; the first that does not compile raises re.error,
\* the first that matches ends the loop.
ExcludedFrom(s, i) ==
    IF i > Len(EXCLUDED_PATTERNS) THEN "nomatch"
    ELSE IF ~ReValid(EXCLUDED_PATTERNS[i]) THEN "re.error"
    ELSE IF ReSearch(EXCLUDED_PATTERNS[i], s) THEN "match"
    ELSE ExcludedFrom(s, i + 1)

\* mutant: an entry that does not compile is passed over instead of raising
AnyExcluded_SkipsInvalid(s) ==
    IF \E i \in 1..Len(EXCLUDED_PATTERNS) :
          ReValid(EXCLUDED_PATTERNS[i]) /\ ReSearch(EXCLUDED_PATTERNS[i], s)
    THEN "match" ELSE "nomatch"

\* any(re.search(p, s) for p in EXCLUDED_PATTERNS)
AnyExcluded(s) == ExcludedFrom(s, 1)

\* is_safe_path(path): "True", "False", or "re.error" when it raises
is_safe_path(path) ==
    LET abs_path == abspath(path) IN
    IF ~StartsWith(PathStr(abs_path), PathStr(WORKSPACE_ROOT)) THEN "False"
    ELSE LET rel_path == relpath(abs_path, WORKSPACE_ROOT)
             m == AnyExcluded(PathStr(rel_path))
         IN IF m = "match" THEN "False"
            ELSE IF m = "re.error" THEN "re.error"
            ELSE "True"

(* ---------------------------- file system ----------------------------- *)
VARIABLES
    safe_patch,   \* "none", or the constant a test patches is_safe_path to return
    f_exists,     \* the file WatchedFile exists
    f_mtime,      \* its modification timestamp
    f_content,    \* its content: the number of writes it has received
    f_readable,   \* the process may open it
    op,           \* the handler being run, "none" before the call
    pc,           \* its position
    path,         \* its path argument
    guard,        \* what the guard returned in this call, "unset" before it ran
    accesses,     \* the filesystem primitives this call has invoked, with their paths
    outcome,      \* how the call ended: [kind, msg], kind "none" while it runs
    result,       \* the value a tool returned
    events,       \* the kinds of the events the watcher has yielded, in order
    content,      \* file_monitor_handler's local: the content last read and yielded
    last_mtime,   \* file_monitor_handler's local: the baseline timestamp
    sf_args,      \* search_files' arguments pattern, max_results, include_content
    sf_results,   \* search_files' local results
    sf_count,     \* search_files' local count
    sf_todo       \* the directories os.walk has still to yield, next first

fsvars == <<f_exists, f_mtime, f_content, f_readable>>
monvars == <<events, content, last_mtime>>
sfvars == <<sf_args, sf_results, sf_count, sf_todo>>
vars == <<safe_patch, f_exists, f_mtime, f_content, f_readable, op, pc, path, guard,
          accesses, outcome, result, events, content, last_mtime,
          sf_args, sf_results, sf_count, sf_todo>>

\* The tree the process runs in (absolute segment lists).  /w is the
\* workspace, /wx a sibling whose name starts with the workspace's name.
DirSegs == { <<>>, <<nW>>, <<nW, nA>>, <<nW, nDotGit>>, <<nWX>>, <<nWX, nDotGit>> }
TextFileSegs == { <<nW, nA, nGit>>, <<nW, nDotEnv>> }
BinaryFileSegs == { <<nW, nA, nF>> }
WatchedFile == <<nW, nF>>

NodeKind(segs) ==
    IF segs \in DirSegs THEN "dir"
    ELSE IF segs \in TextFileSegs \cup BinaryFileSegs THEN "file"
    ELSE IF segs = WatchedFile /\ f_exists THEN "file"
    ELSE "absent"

\* the lines of a text file; the watched file holds one line per write plus one
FileLines(segs) ==
    IF segs = WatchedFile THEN [i \in 1..(f_content + 1) |-> <<"x">>]
    ELSE IF segs = <<nW, nA, nGit>> THEN << <<"x">>, <<"y">>, <<"x", "y">> >>
    ELSE << <<"y">> >>

RECURSIVE SumLen(_)
SumLen(lines) == IF lines = <<>> THEN 0 ELSE Len(Head(lines)) + 1 + SumLen(Tail(lines))

\* st_size: every line ends with a newline
FileSize(segs) == IF segs \in BinaryFileSegs THEN 1 ELSE SumLen(FileLines(segs))

\* the order in which a directory's entries are enumerated (any fixed order:
\* the handlers' outcomes do not depend on it)
EntryOrder == <<nDotGit, nDotEnv, nA, nF, nGit, nW, nWX>>

RECURSIVE Resolve(_, _)
\* the kernel's path walk from directory `at`: [err, segs], the node's
\* segments or the errno the walk fails with
Resolve(at, segs) ==
    IF NodeKind(at) = "absent" THEN [err |-> "ENOENT", segs |-> at]
    ELSE IF segs = <<>> THEN [err |-> "", segs |-> at]
    ELSE IF NodeKind(at) # "dir" THEN [err |-> "ENOTDIR", segs |-> at]
    ELSE IF Head(segs) = nCur THEN Resolve(at, Tail(segs))
    ELSE IF Head(segs) = nUp
         THEN Resolve(IF at = <<>> THEN at ELSE SubSeq(at, 1, Len(at) - 1), Tail(segs))
    ELSE Resolve(Append(at, Head(segs)), Tail(segs))

Lookup(p) == Resolve(IF p.abs THEN <<>> ELSE WORKSPACE_ROOT.segs, p.segs)

LookupError(r) == IF r.err = "ENOENT" THEN "FileNotFoundError" ELSE "NotADirectoryError"

\* os.path.exists(p)
PathExists(p) == Lookup(p).err = ""

\* open(p, 'r', encoding='utf-8') and a read of the whole file
OpenRead(p) ==
    LET r == Lookup(p) IN
    IF r.err # "" THEN [err |-> LookupError(r), val |-> <<>>]
    ELSE IF NodeKind(r.segs) = "dir" THEN [err |-> "IsADirectoryError", val |-> <<>>]
    ELSE IF r.segs = WatchedFile /\ ~f_readable
         THEN [err |-> "PermissionError", val |-> <<>>]
    ELSE IF r.segs \in BinaryFileSegs THEN [err |-> "UnicodeDecodeError", val |-> <<>>]
    ELSE [err |-> "", val |-> FileLines(r.segs)]

\* os.path.getmtime(p)
GetMtime(p) ==
    LET r == Lookup(p) IN
    IF r.err # "" THEN [err |-> LookupError(r), val |-> 0]
    ELSE [err |-> "", val |-> IF r.segs = WatchedFile THEN f_mtime ELSE 0]

\* os.scandir(p): the entries' names, in enumeration order
ScanDir(p) ==
    LET r == Lookup(p) IN
    IF r.err # "" THEN [err |-> LookupError(r), val |-> <<>>]
    ELSE IF NodeKind(r.segs) # "dir" THEN [err |-> "NotADirectoryError", val |-> <<>>]
    ELSE [err |-> "",
          val |-> SelectSeq(EntryOrder,
                            LAMBDA n : NodeKind(Append(r.segs, n)) # "absent")]

\* the kind of the entry `name` of the directory p
EntryKind(p, name) == NodeKind(Append(Lookup(p).segs, name))

(* ------------------------------ handlers ------------------------------ *)
Access(prim, p) == [prim |-> prim, path |-> p]
Raised(kind, msg) == [kind |-> kind, msg |-> msg]
Running == Raised("none", "")
Returned == Raised("ok", "")
\* an exception no handler catches leaves the call as itself
Uncaught(exc) == Raised(exc, "")

\* the input paths: absolute or relative, of at most MaxSegs segments
RECURSIVE SegLists(_)
SegLists(n) ==
    IF n = 0 THEN { <<>> }
    ELSE LET shorter == SegLists(n - 1)
         IN shorter \cup { Append(s, name) : s \in shorter, name \in Names }
Paths == [abs : BOOLEAN, segs : SegLists(MaxSegs)]

\* the is_safe_path the handlers call: the function itself, or the constant
\* the tests put in its place (tests/test_server.py:71 and :90)
Guard(p) == IF safe_patch = "none" THEN is_safe_path(p) ELSE safe_patch

Init ==
    /\ safe_patch \in {"none", "True", "False"}
    /\ f_exists \in BOOLEAN
    /\ f_mtime = 0
    /\ f_content = 0
    /\ f_readable = TRUE
    /\ op = "none"
    /\ pc = "idle"
    /\ path = WORKSPACE_ROOT
    /\ guard = "unset"
    /\ accesses = {}
    /\ outcome = Running
    /\ result = <<>>
    /\ events = <<>>
    /\ content = <<>>
    /\ last_mtime = 0
    /\ sf_args = [pattern |-> <<>>, max_results |-> 0, include_content |-> FALSE]
    /\ sf_results = <<>>
    /\ sf_count = 0
    /\ sf_todo = <<>>

\* what every call sets on entry and on its guard's verdict
Enter(name, p) ==
    /\ pc = "idle"
    /\ op' = name
    /\ path' = p
    /\ guard' = Guard(p)

\* mutant: the refusal is raised inside a try whose `except Exception`
\* re-raises it as INTERNAL_ERROR
Refused_InsideTry(msg) ==
    /\ guard' # "True"
    /\ pc' = "done"
    /\ outcome' = Raised("INTERNAL_ERROR", msg)
    /\ accesses' = accesses

\* the guard's refusal: the handler raises before anything else
Refused(msg) ==
    /\ guard' # "True"
    /\ pc' = "done"
    /\ outcome' = IF guard' = "False" THEN Raised("INVALID_PARAMS", msg)
                  ELSE Uncaught("re.error")
    /\ accesses' = accesses

\* mutant: the except clause for UnicodeDecodeError is missing
read_file_NoDecodeClause(p) ==
    /\ Enter("read_file", p)
    /\ \/ Refused("Access denied to file")
          /\ result' = result
       \/ /\ guard' = "True"
          /\ pc' = "done"
          /\ accesses' = accesses \cup {Access("open", p)}
          /\ LET r == OpenRead(p) IN
             /\ result' = r.val
             /\ outcome' =
                  IF r.err = "" THEN Returned
                  ELSE IF r.err = "FileNotFoundError"
                       THEN Raised("NOT_FOUND", "File not found")
                  ELSE Raised("INTERNAL_ERROR", "Error reading file")
    /\ UNCHANGED <<safe_patch, fsvars, monvars, sfvars>>

\* read_file(path)
read_file(p) ==
    /\ Enter("read_file", p)
    /\ \/ Refused("Access denied to file")
          /\ result' = result
       \/ /\ guard' = "True"
          /\ pc' = "done"
          /\ accesses' = accesses \cup {Access("open", p)}
          /\ LET r == OpenRead(p) IN
             /\ result' = r.val
             /\ outcome' =
                  IF r.err = "" THEN Returned
                  ELSE IF r.err = "FileNotFoundError"
                       THEN Raised("NOT_FOUND", "File not found")
                  ELSE IF r.err = "UnicodeDecodeError"
                       THEN Raised("INTERNAL_ERROR", "Cannot read file as text")
                  ELSE Raised("INTERNAL_ERROR", "Error reading file")
    /\ UNCHANGED <<safe_patch, fsvars, monvars, sfvars>>

RECURSIVE ListEntries(_, _, _, _)
\* The loop of list_directory over the entries still to come:
\* [err, entries, acc], acc the primitives invoked so far.
ListEntries(p, names, entries, acc) ==
    IF names = <<>> THEN [err |-> "", entries |-> entries, acc |-> acc]
    ELSE LET name == Head(names)
             x == AnyExcluded(name)
             child == PathJoin(p, name)
             info == [name |-> name,
                      type |-> IF EntryKind(p, name) = "dir" THEN "directory" ELSE "file",
                      is_hidden |-> StartsWith(name, nCur)]
         IN IF x = "re.error" THEN [err |-> "re.error", entries |-> entries, acc |-> acc]
            ELSE IF x = "match" THEN ListEntries(p, Tail(names), entries, acc)
            ELSE IF EntryKind(p, name) = "file"
                 THEN ListEntries(p, Tail(names),
                        Append(entries,
                               [name |-> info.name, type |-> info.type,
                                is_hidden |-> info.is_hidden,
                                size |-> FileSize(Append(Lookup(p).segs, name))]),
                        acc \cup {Access("is_dir", child), Access("stat", child)})
            ELSE ListEntries(p, Tail(names), Append(entries, info),
                             acc \cup {Access("is_dir", child)})

\* list_directory(path)
list_directory(p) ==
    /\ Enter("list_directory", p)
    /\ \/ Refused("Access denied to directory")
          /\ result' = result
       \/ /\ guard' = "True"
          /\ pc' = "done"
          /\ LET sd == ScanDir(p)
                 r == ListEntries(p, sd.val, <<>>, accesses \cup {Access("scandir", p)})
             IN
             /\ accesses' = r.acc
             /\ result' = IF sd.err = "" /\ r.err = "" THEN r.entries ELSE <<>>
             /\ outcome' =
                  IF sd.err = "FileNotFoundError"
                  THEN Raised("NOT_FOUND", "Directory not found")
                  ELSE IF sd.err # "" \/ r.err # ""
                       THEN Raised("INTERNAL_ERROR", "Error listing directory")
                  ELSE Returned
    /\ UNCHANGED <<safe_patch, fsvars, monvars, sfvars>>

(* ---------------------------- search_files ----------------------------- *)
\* the patterns a search is called with: two that compile, one that does not
SearchPatterns == { <<"x">>, <<".", "y">>, <<"[", "x">> }

IsSpace(c) == c \in {" ", "\n", "\t"}

RECURSIVE Strip(_)
\* str.strip()
Strip(s) ==
    IF s = <<>> THEN s
    ELSE IF IsSpace(Head(s)) THEN Strip(Tail(s))
    ELSE IF IsSpace(s[Len(s)]) THEN Strip(SubSeq(s, 1, Len(s) - 1))
    ELSE s

RECURSIVE ScanLines(_, _, _, _, _)
\* The loop over the lines of one open file, from line number i on:
\* [returned, results, count]
ScanLines(file_path, lines, i, results, count) ==
    IF lines = <<>> THEN [returned |-> FALSE, results |-> results, count |-> count]
    ELSE LET line == Append(Head(lines), "\n") IN
         IF ReSearch(sf_args.pattern, line)
         THEN LET hit == IF sf_args.include_content
                         THEN [file |-> file_path, line |-> i, content |-> Strip(line)]
                         ELSE [file |-> file_path, line |-> i]
                  grown == Append(results, hit)
              IN IF count + 1 >= sf_args.max_results
                 THEN [returned |-> TRUE, results |-> grown, count |-> count + 1]
                 ELSE ScanLines(file_path, Tail(lines), i + 1, grown, count + 1)
         ELSE ScanLines(file_path, Tail(lines), i + 1, results, count)

RECURSIVE ScanFiles(_, _, _, _, _)
\* The loop over the files of one directory os.walk yields:
\* [status, results, count, acc], status "next", "return" or "re.error"
ScanFiles(root, files, results, count, acc) ==
    IF files = <<>>
    THEN [status |-> "next", results |-> results, count |-> count, acc |-> acc]
    ELSE LET x == AnyExcluded(Head(files))
             file_path == PathJoin(root, Head(files))
         IN IF x = "re.error"
            THEN [status |-> "re.error", results |-> results, count |-> count, acc |-> acc]
            ELSE IF x = "match" THEN ScanFiles(root, Tail(files), results, count, acc)
            ELSE LET f == OpenRead(file_path)
                     opened == acc \cup {Access("open", file_path)}
                 IN IF f.err # ""
                    THEN ScanFiles(root, Tail(files), results, count, opened)
                    ELSE LET r == ScanLines(file_path, f.val, 1, results, count) IN
                         IF r.returned
                         THEN [status |-> "return", results |-> r.results,
                               count |-> r.count, acc |-> opened]
                         ELSE ScanFiles(root, Tail(files), r.results, r.count, opened)

RECURSIVE FilterDirs(_, _)
\* dirs[:] = [d for d in dirs if not any(...)]: [err, kept]
FilterDirs(dirs, kept) ==
    IF dirs = <<>> THEN [err |-> "", kept |-> kept]
    ELSE LET x == AnyExcluded(Head(dirs)) IN
         IF x = "re.error" THEN [err |-> "re.error", kept |-> kept]
         ELSE FilterDirs(Tail(dirs), IF x = "match" THEN kept ELSE Append(kept, Head(dirs)))

\* search_files(pattern, path, max_results, include_content) up to the walk
search_files(pattern, p, max_results, include_content) ==
    /\ Enter("search_files", p)
    /\ sf_args' = [pattern |-> pattern, max_results |-> max_results,
                   include_content |-> include_content]
    /\ sf_results' = <<>>
    /\ sf_count' = 0
    /\ \/ Refused("Access denied to directory")
          /\ sf_todo' = <<>>
       \/ /\ guard' = "True"
          /\ accesses' = accesses
          /\ IF ReValid(pattern)
             THEN pc' = "walk" /\ outcome' = outcome /\ sf_todo' = <<p>>
             ELSE /\ pc' = "done"
                  /\ outcome' = Raised("INVALID_PARAMS", "Invalid regex pattern")
                  /\ sf_todo' = <<>>
    /\ UNCHANGED <<safe_patch, fsvars, monvars, result>>

\* one iteration of `for root, dirs, files in os.walk(path)`, with its body
SearchWalk ==
    /\ pc = "walk"
    /\ sf_todo # <<>>
    /\ LET root == Head(sf_todo)
           sd == ScanDir(root)
           walked == accesses \cup {Access("walk", root)}
           dirs == SelectSeq(sd.val, LAMBDA n : EntryKind(root, n) = "dir")
           files == SelectSeq(sd.val, LAMBDA n : EntryKind(root, n) = "file")
           fd == FilterDirs(dirs, <<>>)
           r == ScanFiles(root, files, sf_results, sf_count, walked)
       IN
       IF sd.err # ""
       THEN \* os.walk ignores a directory it cannot scan
            /\ sf_todo' = Tail(sf_todo)
            /\ accesses' = walked
            /\ UNCHANGED <<pc, outcome, result, sf_results, sf_count>>
       ELSE IF fd.err # "" \/ r.status = "re.error"
       THEN /\ pc' = "done"
            /\ outcome' = Raised("INTERNAL_ERROR", "Error searching files")
            /\ accesses' = IF fd.err # "" THEN walked ELSE r.acc
            /\ sf_results' = IF fd.err # "" THEN sf_results ELSE r.results
            /\ sf_count' = IF fd.err # "" THEN sf_count ELSE r.count
            /\ UNCHANGED <<result, sf_todo>>
       ELSE /\ accesses' = r.acc
            /\ sf_results' = r.results
            /\ sf_count' = r.count
            /\ IF r.status = "return"
               THEN pc' = "done" /\ outcome' = Returned /\ result' = r.results
                    /\ sf_todo' = sf_todo
               ELSE /\ sf_todo' = [i \in 1..Len(fd.kept) |-> PathJoin(root, fd.kept[i])]
                                     \o Tail(sf_todo)
                    /\ UNCHANGED <<pc, outcome, result>>
    /\ UNCHANGED <<safe_patch, fsvars, monvars, op, path, guard, sf_args>>

\* the walk is exhausted: `return results`
SearchReturn ==
    /\ pc = "walk"
    /\ sf_todo = <<>>
    /\ pc' = "done"
    /\ outcome' = Returned
    /\ result' = sf_results
    /\ UNCHANGED <<safe_patch, fsvars, monvars, op, path, guard, accesses, sfvars>>

(* ------------------------- file_monitor_handler ------------------------ *)
\* An event is recorded by its kind; the content an initial or update event
\* carries is the local `content` at the time it is yielded.
Event(kind) == [event |-> kind]

\* the handler on its first resumption, up to os.path.exists.  The McpError
\* NOT_FOUND is raised inside the try whose `except Exception` re-raises
\* everything as INTERNAL_ERROR.
file_monitor_handler(p) ==
    /\ Enter("file_monitor_handler", p)
    /\ \/ Refused("Access denied to file")
       \/ /\ guard' = "True"
          /\ accesses' = accesses \cup {Access("exists", p)}
          /\ IF PathExists(p)
             THEN pc' = "open" /\ outcome' = outcome
             ELSE /\ pc' = "done"
                  /\ outcome' = Raised("INTERNAL_ERROR", "Error setting up file monitor")
    /\ UNCHANGED <<safe_patch, fsvars, monvars, sfvars, result>>

\* read the initial content and yield the initial event
MonitorInitial ==
    /\ pc = "open"
    /\ accesses' = accesses \cup {Access("open", path)}
    /\ LET r == OpenRead(path) IN
       IF r.err = ""
       THEN /\ content' = r.val
            /\ events' = Append(events, Event("initial"))
            /\ pc' = "yielded"
            /\ outcome' = outcome
       ELSE /\ pc' = "done"
            /\ outcome' = Raised("INTERNAL_ERROR", "Error setting up file monitor")
            /\ UNCHANGED <<content, events>>
    /\ UNCHANGED <<safe_patch, fsvars, sfvars, op, path, guard, result, last_mtime>>

\* resumed after the initial event: last_mtime = os.path.getmtime(path),
\* outside the loop's try
MonitorBaseline ==
    /\ pc = "yielded"
    /\ accesses' = accesses \cup {Access("getmtime", path)}
    /\ LET r == GetMtime(path) IN
       IF r.err = ""
       THEN last_mtime' = r.val /\ pc' = "sleep" /\ outcome' = outcome
       ELSE /\ pc' = "done"
            /\ outcome' = Raised("INTERNAL_ERROR", "Error setting up file monitor")
            /\ last_mtime' = last_mtime
    /\ UNCHANGED <<safe_patch, fsvars, sfvars, op, path, guard, result, events, content>>

\* mutant: the break after the yield is missing
Terminal_NoBreak(kind) ==
    /\ events' = Append(events, Event(kind))
    /\ pc' = "sleep"
    /\ outcome' = outcome

\* the loop's exits: yield `kind`, break, and the generator ends
Terminal(kind) ==
    /\ events' = Append(events, Event(kind))
    /\ pc' = "done"
    /\ outcome' = Returned

\* mutant: the comparison with the baseline is not strict
MonitorPoll_NotStrict ==
    /\ pc = "sleep"
    /\ accesses' = accesses \cup {Access("getmtime", path)}
    /\ LET r == GetMtime(path) IN
       IF r.err = "FileNotFoundError" THEN Terminal("deleted") /\ last_mtime' = last_mtime
       ELSE IF r.err # "" THEN Terminal("error") /\ last_mtime' = last_mtime
       ELSE IF r.val >= last_mtime
            THEN last_mtime' = r.val /\ pc' = "reread" /\ UNCHANGED <<events, outcome>>
       ELSE UNCHANGED <<last_mtime, pc, events, outcome>>
    /\ UNCHANGED <<safe_patch, fsvars, sfvars, op, path, guard, result, content>>

\* a poll tick: the sleep is over, current_mtime = os.path.getmtime(path)
MonitorPoll ==
    /\ pc = "sleep"
    /\ accesses' = accesses \cup {Access("getmtime", path)}
    /\ LET r == GetMtime(path) IN
       IF r.err = "FileNotFoundError" THEN Terminal("deleted") /\ last_mtime' = last_mtime
       ELSE IF r.err # "" THEN Terminal("error") /\ last_mtime' = last_mtime
       ELSE IF r.val > last_mtime
            THEN last_mtime' = r.val /\ pc' = "reread" /\ UNCHANGED <<events, outcome>>
       ELSE UNCHANGED <<last_mtime, pc, events, outcome>>
    /\ UNCHANGED <<safe_patch, fsvars, sfvars, op, path, guard, result, content>>

\* the tick saw a later timestamp: read the file again and yield an update
MonitorUpdate ==
    /\ pc = "reread"
    /\ accesses' = accesses \cup {Access("open", path)}
    /\ LET r == OpenRead(path) IN
       IF r.err = "FileNotFoundError" THEN Terminal("deleted") /\ content' = content
       ELSE IF r.err # "" THEN Terminal("error") /\ content' = content
       ELSE /\ content' = r.val
            /\ events' = Append(events, Event("update"))
            /\ pc' = "sleep"
            /\ outcome' = outcome
    /\ UNCHANGED <<safe_patch, fsvars, sfvars, op, path, guard, result, last_mtime>>

\* the consumer stops iterating while the generator is suspended
MonitorCancel ==
    /\ pc \in {"yielded", "sleep"}
    /\ pc' = "done"
    /\ outcome' = Uncaught("cancelled")
    /\ UNCHANGED <<safe_patch, fsvars, sfvars, monvars, op, path, guard, result, accesses>>

(* ----------------------------- environment ----------------------------- *)
\* Other processes act on the file WatchedFile while a watcher runs on it.
Watching ==
    /\ op = "file_monitor_handler"
    /\ pc # "done"
    /\ abspath(path).segs = WatchedFile
callvars == <<safe_patch, op, pc, path, guard, accesses, outcome, result>>

\* a write that advances the modification timestamp
WriteFile ==
    /\ Watching /\ f_exists /\ f_mtime < MaxMtime
    /\ f_mtime' = f_mtime + 1
    /\ f_content' = f_content + 1
    /\ UNCHANGED <<f_exists, f_readable, callvars, monvars, sfvars>>

\* a write within the timestamp's granularity: the timestamp stays
WriteSameTick ==
    /\ Watching /\ f_exists /\ f_content < MaxMtime
    /\ f_content' = f_content + 1
    /\ UNCHANGED <<f_exists, f_mtime, f_readable, callvars, monvars, sfvars>>

DeleteFile ==
    /\ Watching /\ f_exists
    /\ f_exists' = FALSE
    /\ UNCHANGED <<f_mtime, f_content, f_readable, callvars, monvars, sfvars>>

CreateFile ==
    /\ Watching /\ ~f_exists /\ f_mtime < MaxMtime
    /\ f_exists' = TRUE
    /\ f_readable' = TRUE
    /\ f_mtime' = f_mtime + 1
    /\ f_content' = 0
    /\ UNCHANGED <<callvars, monvars, sfvars>>

\* chmod: the process loses the right to open the file
ChmodFile ==
    /\ Watching /\ f_exists /\ f_readable
    /\ f_readable' = FALSE
    /\ UNCHANGED <<f_exists, f_mtime, f_content, callvars, monvars, sfvars>>

ReadFile == pc = "idle" /\ \E p \in Paths : read_file(p)
ListDirectory == pc = "idle" /\ \E p \in Paths : list_directory(p)
SearchFiles ==
    /\ pc = "idle"
    /\ \E pattern \in SearchPatterns, p \in Paths, m \in 0..MaxResultsArg, c \in BOOLEAN :
          search_files(pattern, p, m, c)
FileMonitor == pc = "idle" /\ \E p \in Paths : file_monitor_handler(p)

Next ==
    \/ ReadFile
    \/ ListDirectory
    \/ SearchFiles
    \/ SearchWalk
    \/ SearchReturn
    \/ FileMonitor
    \/ MonitorInitial
    \/ MonitorBaseline
    \/ MonitorPoll
    \/ MonitorUpdate
    \/ MonitorCancel
    \/ WriteFile
    \/ WriteSameTick
    \/ DeleteFile
    \/ CreateFile
    \/ ChmodFile

Spec == Init /\ [][Next]_vars

(* ------------------------------- claims -------------------------------- *)
Called == op # "none"
RealGuard == Called /\ safe_patch = "none"
LastEvent == events[Len(events)].event
NumUpdates == Cardinality({i \in 1..Len(events) : events[i].event = "update"})

\* the normalized absolute form of p is the root or lies below it, at a
\* segment boundary
LexicallyContained(p) ==
    LET a == abspath(p).segs
        r == WORKSPACE_ROOT.segs
    IN Len(a) >= Len(r) /\ SubSeq(a, 1, Len(r)) = r

\* some entry of EXCLUDED_PATTERNS, at any position, matches inside s
SomePatternMatches(s) ==
    \E i \in 1..Len(EXCLUDED_PATTERNS) :
        ReValid(EXCLUDED_PATTERNS[i]) /\ ReSearch(EXCLUDED_PATTERNS[i], s)

RelToRoot(p) == PathStr(relpath(abspath(p), WORKSPACE_ROOT))

\* C1: every filesystem primitive a call has invoked was handed the call's
\* path argument, after the guard returned True for it in this call; no
\* other path (no child of a listed or walked directory) reaches a primitive.
C1_AccessesAreGuarded ==
    \A a \in accesses : guard = "True" /\ a.path = path

\* C1 witness: a listing or a search has run its directory scan to the end.
C1_Witness ==
    /\ op \in {"list_directory", "search_files"}
    /\ pc = "done"
    /\ outcome.kind = "ok"
    /\ \E a \in accesses : a.prim \in {"scandir", "walk"}

\* C2: is_safe_path returns False for every path whose normalized absolute
\* form is not lexically contained in WORKSPACE_ROOT.
C2_OutsideIsUnsafe ==
    (RealGuard /\ ~LexicallyContained(path)) => guard = "False"

\* C3: is_safe_path returns False for every path inside WORKSPACE_ROOT whose
\* relative path contains a match of any entry of EXCLUDED_PATTERNS.
C3_ExcludedIsUnsafe ==
    (RealGuard /\ LexicallyContained(path) /\ SomePatternMatches(RelToRoot(path)))
        => guard = "False"

\* C4: is_safe_path returns True for every path inside WORKSPACE_ROOT whose
\* relative path matches no exclusion pattern.
C4_IncludedIsSafe ==
    (RealGuard /\ LexicallyContained(path) /\ ~SomePatternMatches(RelToRoot(path)))
        => guard = "True"

\* C5: when the guard returns False the handler has failed with the
\* access-denied error, and has invoked no filesystem primitive, returned
\* no result and yielded no event.
C5_RefusedBeforeAccess ==
    (Called /\ guard = "False") =>
        /\ pc = "done"
        /\ outcome.kind = "INVALID_PARAMS"
        /\ outcome.msg \in {"Access denied to file", "Access denied to directory"}
        /\ accesses = {}
        /\ result = <<>>
        /\ events = <<>>

\* C5 witness: the path guard itself refused a watcher's path.
C5_Witness ==
    /\ op = "file_monitor_handler"
    /\ safe_patch = "none"
    /\ guard = "False"
    /\ pc = "done"

\* C6: a watcher that ended (uncancelled) after its initial event, with the
\* watched file gone, ended by yielding the deleted event, not by raising.
C6_DisappearanceIsDeleted ==
    (/\ op = "file_monitor_handler"
     /\ abspath(path).segs = WatchedFile
     /\ pc = "done"
     /\ events # <<>>
     /\ ~f_exists
     /\ outcome.kind # "cancelled")
        => (outcome.kind = "ok" /\ LastEvent = "deleted")

\* C7: a watcher whose path is safe and whose file does not exist on entry
\* fails with NOT_FOUND and yields no event.
C7_MissingIsNotFound ==
    (/\ op = "file_monitor_handler"
     /\ guard = "True"
     /\ pc = "done"
     /\ accesses = {Access("exists", path)}
     /\ ~PathExists(path))
        => (outcome.kind = "NOT_FOUND" /\ events = <<>>)

AfterTerminalEvent == events # <<>> /\ LastEvent \in {"deleted", "error"}

\* C8: once a deleted or an error event has been yielded the watcher is
\* done: it yields no further event and invokes no further primitive.
C8_TerminalEvents ==
    /\ [](AfterTerminalEvent => pc = "done")
    /\ [][AfterTerminalEvent =>
            (events' = events /\ accesses' = accesses /\ pc' = "done")]_vars

\* C8 witness: a watcher has ended by yielding an error event.
C8_Witness == AfterTerminalEvent /\ LastEvent = "error" /\ pc = "done"

\* C9: a poll tick goes on to an update only when the timestamp it read is
\* greater than the baseline, which it then replaces; an update is yielded
\* only from there.  So the updates yielded (and pending) number at most
\* the advances of the baseline, and there are none while the timestamp
\* has not moved.
C9_UpdateOnlyOnAdvance ==
    /\ [](op = "file_monitor_handler" =>
            /\ NumUpdates + (IF pc = "reread" THEN 1 ELSE 0) <= last_mtime
            /\ last_mtime <= f_mtime)
    /\ [][(pc = "sleep" /\ pc' = "reread") =>
            (GetMtime(path).val > last_mtime /\ last_mtime' = GetMtime(path).val)]_vars
    /\ [][(events' # events /\ events'[Len(events')].event = "update") =>
            (pc = "reread" /\ last_mtime' = last_mtime)]_vars

\* C9 witness: two updates have been yielded.
C9_Witness == NumUpdates = 2 /\ pc = "sleep"

\* C10: a search returns at most max_results matches, and is never about to
\* visit another directory once max_results matches have been collected.
C10_StopsAtMaxResults ==
    op = "search_files" =>
        /\ (pc = "done" /\ outcome.kind = "ok") => Len(result) <= sf_args.max_results
        /\ (pc = "walk" /\ sf_todo # <<>>) => sf_count < sf_args.max_results

(* what a search and a listing are to return, told from the tree alone *)
NameExcluded(name) == SomePatternMatches(name)
EntryNames == Names \ {nUp}
ReadableText(segs) ==
    /\ segs \notin BinaryFileSegs
    /\ ~(segs = WatchedFile /\ ~f_readable)
IsDirectory(p) == Lookup(p).err = "" /\ NodeKind(Lookup(p).segs) = "dir"

RECURSIVE TreeFiles(_, _)
\* the files below the directory p (at segs) that no excluded name hides
TreeFiles(p, segs) ==
    UNION { IF NodeKind(Append(segs, n)) = "file"
            THEN { [file |-> PathJoin(p, n), segs |-> Append(segs, n)] }
            ELSE TreeFiles(PathJoin(p, n), Append(segs, n)) :
            n \in { m \in EntryNames :
                      NodeKind(Append(segs, m)) # "absent" /\ ~NameExcluded(m) } }

\* one [file, line] for each line of those files that the pattern matches
ExpectedMatches(p, pattern) ==
    UNION { { [file |-> t.file, line |-> i] :
              i \in { j \in 1..Len(FileLines(t.segs)) :
                        ReSearch(pattern, Append(FileLines(t.segs)[j], "\n")) } } :
            t \in { u \in TreeFiles(p, Lookup(p).segs) : ReadableText(u.segs) } }

ReturnedMatches == { [file |-> result[i].file, line |-> result[i].line] :
                     i \in 1..Len(result) }

\* C11: a search of a directory with a valid pattern, when fewer than
\* max_results lines match, succeeds and returns exactly one match, with
\* the file's path and the 1-based line number, for each matching line of
\* each readable text file that no excluded name hides.
C11_SearchFindsEveryMatch ==
    (/\ op = "search_files"
     /\ guard = "True"
     /\ pc = "done"
     /\ ReValid(sf_args.pattern)
     /\ IsDirectory(path)
     /\ Cardinality(ExpectedMatches(path, sf_args.pattern)) < sf_args.max_results)
        => /\ outcome.kind = "ok"
           /\ ReturnedMatches = ExpectedMatches(path, sf_args.pattern)
           /\ Len(result) = Cardinality(ExpectedMatches(path, sf_args.pattern))

\* the entry a listing is to hold for the child `name` of the directory p
ExpectedEntry(p, name) ==
    LET segs == Append(Lookup(p).segs, name) IN
    IF NodeKind(segs) = "dir"
    THEN [name |-> name, type |-> "directory", is_hidden |-> StartsWith(name, nCur)]
    ELSE [name |-> name, type |-> "file", is_hidden |-> StartsWith(name, nCur),
          size |-> FileSize(segs)]

ExpectedEntries(p) ==
    { ExpectedEntry(p, n) :
      n \in { m \in EntryNames :
                NodeKind(Append(Lookup(p).segs, m)) # "absent" /\ ~NameExcluded(m) } }

\* C12: a listing of an existing directory succeeds and returns exactly one
\* entry for each child whose name matches no exclusion pattern, tagged
\* directory, or file with its size, and no other entry.
C12_ListingIsComplete ==
    (/\ op = "list_directory"
     /\ guard = "True"
     /\ pc = "done"
     /\ IsDirectory(path))
        => /\ outcome.kind = "ok"
           /\ { result[i] : i \in 1..Len(result) } = ExpectedEntries(path)
           /\ Len(result) = Cardinality(ExpectedEntries(path))

ReadBinary ==
    /\ op = "read_file"
    /\ guard = "True"
    /\ pc = "done"
    /\ Lookup(path).err = ""
    /\ Lookup(path).segs \in BinaryFileSegs

\* the kinds read_file gives its other failures
OtherFailureKinds == {"INTERNAL_ERROR", "NOT_FOUND", "INVALID_PARAMS"}

\* C13 as stated: a file that is not UTF-8 makes read_file fail with a kind
\* that no other failure of read_file has.
C13_DecodeErrorHasOwnKind ==
    ReadBinary => (outcome.kind \notin OtherFailureKinds \cup {"ok", "none"})

\* C13 as amended: a file that is not UTF-8 makes read_file fail with
\* INTERNAL_ERROR, the kind of its other I/O failures; what tells it apart is
\* the message "Cannot read file as text", which no other outcome carries.
C13_DecodeErrorHasOwnMessage ==
    (op = "read_file" /\ pc = "done" /\ guard = "True") =>
        /\ ReadBinary <=> outcome.msg = "Cannot read file as text"
        /\ ReadBinary => outcome.kind = "INTERNAL_ERROR"

\* C13 witness: a file that is not UTF-8 has been read.
C13_Witness == ReadBinary /\ outcome = Raised("INTERNAL_ERROR", "Cannot read file as text")

(* ------------------------------ liveness ------------------------------- *)
\* Every write advances the timestamp (no WriteSameTick), and a watcher
\* that can take its next step takes it: the event loop resumes the
\* generator after each yield and each sleep for as long as it is consumed.
LiveNext ==
    \/ ReadFile
    \/ ListDirectory
    \/ SearchFiles
    \/ SearchWalk
    \/ SearchReturn
    \/ FileMonitor
    \/ MonitorInitial
    \/ MonitorBaseline
    \/ MonitorPoll
    \/ MonitorUpdate
    \/ MonitorCancel
    \/ WriteFile
    \/ DeleteFile
    \/ CreateFile
    \/ ChmodFile

LiveSpec ==
    /\ Init
    /\ [][LiveNext]_vars
    /\ WF_vars(MonitorInitial)
    /\ WF_vars(MonitorBaseline)
    /\ WF_vars(MonitorPoll)
    /\ WF_vars(MonitorUpdate)

\* the watcher runs on WatchedFile, has yielded its initial event, and the
\* content it last yielded is not the content of the file, which is there
\* to be read
Stale ==
    /\ op = "file_monitor_handler"
    /\ abspath(path).segs = WatchedFile
    /\ pc \in {"yielded", "sleep", "reread"}
    /\ f_exists /\ f_readable
    /\ content # FileLines(WatchedFile)

\* C14: while the watcher keeps polling, a write after the initial read is
\* eventually followed by an update: whenever the content last yielded is
\* behind the file, later either it is not (an update carried the file's
\* content), or the watcher has ended, or the file is gone or unreadable.
C14_WritesAreReported == Stale ~> ~Stale
====
